---- MODULE Spec2Model ----
(***************************************************************************)
(* pgit (src/main.go): run "git <args>" in every repository directory of   *)
(* the current directory, at most maxconcurrency at a time, each with a    *)
(* timeout, and exit with the number of failed commands.                   *)
(*                                                                         *)
(* Goroutines of the program: main (spawns the workers, discovers the      *)
(* repositories, collects the results), the dispatcher (publishes the      *)
(* commands and closes the queue), the workers, and one timer goroutine    *)
(* per started process.  The external processes are the environment.       *)
(*                                                                         *)
(* Names (file names, the -exclude value) are sequences of one-character   *)
(* strings, so that suffix tests, splitting and case folding are computed. *)
(***************************************************************************)
EXTENDS Integers, Sequences, FiniteSets, TLC

\* Bounds of the model.
MaxWorkers == 2
MaxRepos == 2
MaxChunks == 1

VARIABLES
    maxconcurrency,      \* flag -n
    excludeDirectories,  \* flag -exclude, as given (one string)
    dirs,                \* the listing ioutil.ReadDir("./") returns
    mpc,                 \* main: "spawn", "discover", "publish", "collect", "exited";
                         \* "fatal" when the Go runtime ended the program
    workers,             \* the worker goroutines started so far, in order of id
    repos,               \* main's repos slice
    dpc,                 \* dispatcher goroutine: "none", "loop", "done"
    didx,                \* dispatcher: index of the next repo to send
    inputClosed,         \* whether close(input) has run
    dequeued,            \* the commands the workers have received from input, in order
    ncollected,          \* main's collect loop counter i
    received,            \* every result main has read from output, in order
    failedCms,           \* main's failedCms slice
    exitCode,            \* the argument of os.Exit, -1 before the exit
    summary,             \* the text of the lines main printed before a failure exit
    pstate,              \* per task, its process: "none", "running", "exited", "killed"
    pcode,               \* per task, the exit code of its process (-1: none)
    nwritten,            \* per task, the chunks its process has written
    tpc,                 \* per task, its timer goroutine: "none", "armed", "signalled", "done"
    timedOut,            \* per task, runCommand's timedOut variable
    buf,                 \* per task, the content of its stdout (1) and stderr (2) LogWriter
    stream               \* the bytes written to os.Stdout and os.Stderr, in order

vars == <<maxconcurrency, excludeDirectories, dirs, mpc, workers, repos, dpc, didx,
          inputClosed, dequeued, ncollected, received, failedCms, exitCode, summary,
          pstate, pcode, nwritten, tpc, timedOut, buf, stream>>

mainVars == <<mpc, repos, ncollected, received, failedCms, exitCode, summary>>
dispVars == <<dpc, didx, inputClosed, dequeued>>
procVars == <<pstate, pcode, nwritten>>
timerVars == <<tpc, timedOut>>
inputVars == <<maxconcurrency, excludeDirectories, dirs>>

----------------------------------------------------------------------------
(* Strings *)

\* unicode.SimpleFold restricted to the letters the model uses.
Lower(c) ==
    CASE c = "A" -> "a"
      [] c = "B" -> "b"
      [] c = "F" -> "f"
      [] c = "O" -> "o"
      [] OTHER -> c

\* strings.EqualFold
EqualFoldExact(s, t) == s = t
EqualFold(s, t) ==
    /\ Len(s) = Len(t)
    /\ \A i \in 1..Len(s) : Lower(s[i]) = Lower(t[i])

\* strings.HasSuffix
HasSuffix(s, suffix) ==
    /\ Len(s) >= Len(suffix)
    /\ SubSeq(s, Len(s) - Len(suffix) + 1, Len(s)) = suffix

\* strings.Split(s, sep) for a one-character separator: the segments between
\* the separators; the empty string gives one empty segment.
RECURSIVE SplitFrom(_, _, _, _)
SplitFrom(s, sep, i, cur) ==
    IF i > Len(s) THEN <<cur>>
    ELSE IF s[i] = sep THEN <<cur>> \o SplitFrom(s, sep, i + 1, <<>>)
    ELSE SplitFrom(s, sep, i + 1, Append(cur, s[i]))

Split(s, sep) == SplitFrom(s, sep, 1, <<>>)

DotGit == <<".", "g", "i", "t">>

----------------------------------------------------------------------------
(* Repository discovery, main.go:65-87 *)

\* os.Stat(filepath.Join(dir.Name(), ".git")) on a directory entry: "ok",
\* "notexist" (os.IsNotExist), or "denied" when the directory cannot be searched.
Stat(d) ==
    IF ~d.searchable THEN "denied"
    ELSE IF d.hasMarker THEN "ok"
    ELSE "notexist"

Excluded(name, excludedDirs) ==
    \E j \in 1..Len(excludedDirs) : EqualFold(name, excludedDirs[j])

\* Whether the loop body reaches repos = append(repos, dir.Name()).
Included(d, excludedDirs) ==
    /\ ~(~d.isDir \/ HasSuffix(d.name, DotGit))
    /\ ~(Stat(d) = "notexist")
    /\ ~Excluded(d.name, excludedDirs)

DiscoverFrom(ds, excludedDirs, k) ==
    LET Kept(d) == Included(d, excludedDirs)
        kept == SelectSeq(SubSeq(ds, k, Len(ds)), Kept)
    IN [i \in 1..Len(kept) |-> kept[i].name]

DiscoverRepos(ds, exclude) == DiscoverFrom(ds, Split(exclude, ","), 1)

----------------------------------------------------------------------------
(* Values *)

additionalArgs == <<"status">>

NoCommand == [WorkingDir |-> <<>>, Command |-> "", Args |-> <<>>]
NoResult == [Success |-> FALSE, Error |-> "nil", Command |-> NoCommand]

MkCommand(repo) == [WorkingDir |-> repo, Command |-> "git", Args |-> additionalArgs]

\* fmt's %d of a natural number: its decimal digits.
DigitChars == <<"0", "1", "2", "3", "4", "5", "6", "7", "8", "9">>

RECURSIVE Digits(_)
Digits(n) ==
    IF n < 10 THEN <<DigitChars[n + 1]>>
    ELSE Digits(n \div 10) \o <<DigitChars[(n % 10) + 1]>>

\* strings.Join(args, sep)
RECURSIVE Join(_, _)
Join(args, sep) ==
    IF Len(args) = 0 THEN <<>>
    ELSE IF Len(args) = 1 THEN <<args[1]>>
    ELSE <<args[1], sep>> \o Join(Tail(args), sep)

\* Command.String(): fmt.Sprintf("'%s %s' in '%s'", c.Command, strings.Join(c.Args, " "),
\* c.WorkingDir), as the sequence of its pieces.
CommandString(c) ==
    <<"'", c.Command, " ">> \o Join(c.Args, " ") \o <<"'", " in ", "'">>
    \o c.WorkingDir \o <<"'">>

\* The task (index in repos) a command belongs to; directory names are unique.
TaskOf(cmd) == CHOOSE t \in 1..Len(repos) : repos[t] = cmd.WorkingDir

\* The program runs: neither os.Exit nor a fatal error of the Go runtime has
\* ended its goroutines.
Running == mpc \notin {"exited", "fatal"}

----------------------------------------------------------------------------
(* Output *)

\* One Write call on os.Stdout (fd 1) or os.Stderr (fd 2): the bytes are appended
\* as one block (os.File serialises concurrent writes).  o is the writer: a
\* task, or 0 for main.
FileWrite(s, fd, o, bytes) ==
    s \o [i \in 1..Len(bytes) |-> [o |-> o, fd |-> fd, c |-> bytes[i]]]

\* log.Logger.Output: the prefix "[<base>] " (the byte "L"), the text, and a
\* newline when the text does not end in one; written by one Write call.
LoggerOutput(text) ==
    <<"L">> \o text
    \o (IF text # <<>> /\ text[Len(text)] = "\n" THEN <<>> ELSE <<"\n">>)

\* logwriter.LogWriter.Write: the bytes are appended to the writer's buffer.
LogWriterWrite(b, chunk) == b \o chunk

\* logwriter.LogWriter.Flush: the buffer's lines, each labelled by the logger,
\* as one block; nothing for an empty buffer.
RECURSIVE LabelLines(_, _, _)
LabelLines(b, i, cur) ==
    IF i > Len(b) THEN (IF cur = <<>> THEN <<>> ELSE LoggerOutput(cur))
    ELSE IF b[i] = "\n" THEN LoggerOutput(Append(cur, "\n")) \o LabelLines(b, i + 1, <<>>)
    ELSE LabelLines(b, i + 1, Append(cur, b[i]))

LogWriterFlush(b) == LabelLines(b, 1, <<>>)

\* The process writes a chunk to its stdout or stderr: runCommand wired them to
\* the task's LogWriters (process.Stdout = stdout, process.Stderr = stderr).
ProcessWriteDirect(t, fd, chunk) ==
    /\ stream' = FileWrite(stream, fd, t, chunk)
    /\ buf' = buf
ProcessWrite(t, fd, chunk) ==
    /\ buf' = [buf EXCEPT ![t][fd] = LogWriterWrite(@, chunk)]
    /\ stream' = stream

\* What one read of the process's pipe delivers: the end of a line and the
\* beginning of the next.
Chunk == <<"x", "\n", "x">>

----------------------------------------------------------------------------
(* Initial states *)

Dir(name, isDir, hasMarker, searchable) ==
    [name |-> name, isDir |-> isDir, hasMarker |-> hasMarker, searchable |-> searchable]

\* Directories of a run: repositories a, b, c, ... (ReadDir sorts by name).
RunNames == << <<"a">>, <<"b">>, <<"c">>, <<"d">>, <<"e">> >>

RunListings ==
    { [i \in 1..k |-> Dir(RunNames[i], TRUE, TRUE, TRUE)] : k \in 0..MaxRepos }

Banner == <<"v", "\n">>

InitState(counts, listings, excludes) ==
    /\ maxconcurrency \in counts
    /\ excludeDirectories \in excludes
    /\ dirs \in listings
    /\ mpc = "spawn"
    /\ workers = <<>>
    /\ repos = <<>>
    /\ dpc = "none"
    /\ didx = 1
    /\ inputClosed = FALSE
    /\ dequeued = <<>>
    /\ ncollected = 0
    /\ received = <<>>
    /\ failedCms = <<>>
    /\ exitCode = -1
    /\ summary = <<>>
    /\ pstate = [t \in 1..Len(dirs) |-> "none"]
    /\ pcode = [t \in 1..Len(dirs) |-> -1]
    /\ nwritten = [t \in 1..Len(dirs) |-> 0]
    /\ tpc = [t \in 1..Len(dirs) |-> "none"]
    /\ timedOut = [t \in 1..Len(dirs) |-> FALSE]
    /\ buf = [t \in 1..Len(dirs) |-> <<<<>>, <<>>>>]
    /\ stream = FileWrite(<<>>, 1, 0, Banner)

InitWith(listings, excludes) == InitState(0..MaxWorkers, listings, excludes)

Init == InitWith(RunListings, {<<>>})

----------------------------------------------------------------------------
(* main, main.go:52-121 *)

\* The loop condition of "for i := 1; i <= maxconcurrency; i++".
SpawnGuardShort(i) == i < maxconcurrency
SpawnGuardOffByOne(i) == i <= maxconcurrency + 1
SpawnGuard(i) == i <= maxconcurrency

\* go worker(i, input, output)
StartWorker ==
    /\ mpc = "spawn"
    /\ SpawnGuard(Len(workers) + 1)
    /\ workers' = Append(workers, [pc |-> "recv", cmd |-> NoCommand, err |-> "nil",
                                   result |-> NoResult])
    /\ UNCHANGED <<inputVars, mainVars, dispVars, procVars, timerVars, buf, stream>>

\* The directory loop, after the last worker was started.
Discover ==
    /\ mpc = "spawn"
    /\ ~SpawnGuard(Len(workers) + 1)
    /\ repos' = DiscoverRepos(dirs, excludeDirectories)
    /\ mpc' = "publish"
    /\ UNCHANGED <<inputVars, workers, ncollected, received, failedCms, exitCode,
                   summary, dispVars, procVars, timerVars, buf, stream>>

\* go func() { ... }(): the dispatcher goroutine starts.
StartDispatcher ==
    /\ mpc = "publish"
    /\ dpc' = "loop"
    /\ mpc' = "collect"
    /\ UNCHANGED <<inputVars, workers, repos, ncollected, received, failedCms, exitCode,
                   summary, didx, inputClosed, dequeued, procVars, timerVars, buf, stream>>

\* The failed results main keeps.
KeepFailedInverted(failed, result) ==
    IF result.Success THEN Append(failed, result) ELSE failed
KeepFailed(failed, result) ==
    IF ~result.Success THEN Append(failed, result) ELSE failed

\* The collect loop's condition, "i < len(repos)".
CollectGuardOffByOne == ncollected <= Len(repos)
CollectGuardFirstFailure == ncollected < Len(repos) /\ failedCms = <<>>
CollectGuard == ncollected < Len(repos)

\* result := <-output, with worker w's "output <- result": the channel is
\* unbuffered, the send and the receive are one step.
Collect(w) ==
    /\ mpc = "collect"
    /\ CollectGuard
    /\ workers[w].pc = "send"
    /\ received' = Append(received, workers[w].result)
    /\ failedCms' = KeepFailed(failedCms, workers[w].result)
    /\ ncollected' = ncollected + 1
    /\ workers' = [workers EXCEPT ![w].pc = "recv"]
    /\ UNCHANGED <<inputVars, mpc, repos, exitCode, summary, dispVars, procVars,
                   timerVars, buf, stream>>

\* The lines main prints before a failure exit: the count, then one per failure.
SummaryLines(failed, k) ==
    [i \in 1..(2 * (Len(failed) + 1 - k)) |-> IF i % 2 = 1 THEN "f" ELSE "\n"]

Summary(failed) ==
    IF Len(failed) > 0 THEN <<"s", "\n">> \o SummaryLines(failed, 1) ELSE <<>>

\* The text of those lines: "error: %d command(s) failed\n", then for each failed
\* result "command failed: %s\n" with its command's String().
SummaryEntriesButLast(failed, k) ==
    [i \in 1..(Len(failed) - k) |->
        <<"command failed: ">> \o CommandString(failed[k + i - 1].Command) \o <<"\n">>]
SummaryEntries(failed, k) ==
    [i \in 1..(Len(failed) + 1 - k) |->
        <<"command failed: ">> \o CommandString(failed[k + i - 1].Command) \o <<"\n">>]

SummaryText(failed) ==
    IF Len(failed) > 0
    THEN << <<"error: ">> \o Digits(Len(failed)) \o <<" command(s) failed", "\n">> >>
         \o SummaryEntries(failed, 1)
    ELSE <<>>

\* The argument of os.Exit.
ExitStatusZero(failed) == 0
ExitStatus(failed) == IF Len(failed) > 0 THEN Len(failed) ELSE 0

\* The exit status the host reports for os.Exit(code): the low 8 bits of code.
HostStatus(code) == code % (2 ^ 8)

\* After the collect loop: the summary and os.Exit, which ends every goroutine.
Exit ==
    /\ mpc = "collect"
    /\ ~CollectGuard
    /\ stream' = FileWrite(stream, 1, 0, Summary(failedCms))
    /\ summary' = SummaryText(failedCms)
    /\ exitCode' = ExitStatus(failedCms)
    /\ mpc' = "exited"
    /\ UNCHANGED <<inputVars, workers, repos, ncollected, received, failedCms,
                   dispVars, procVars, timerVars, buf>>

----------------------------------------------------------------------------
(* The dispatcher goroutine, main.go:90-101 *)

\* The repo of the dispatcher loop's k-th iteration, "for _, repo := range repos".
DispatchedRepoReversed(k) == repos[Len(repos) + 1 - k]
DispatchedRepoFirst(k) == repos[1]
DispatchedRepo(k) == repos[k]

\* input <- cmd, with worker w's receive in "for cmd := range input".
Dequeue(w) ==
    /\ Running
    /\ dpc = "loop"
    /\ didx <= Len(repos)
    /\ workers[w].pc = "recv"
    /\ workers' = [workers EXCEPT ![w].pc = "header", ![w].cmd = MkCommand(DispatchedRepo(didx)),
                                  ![w].err = "nil", ![w].result = NoResult]
    /\ dequeued' = Append(dequeued, MkCommand(DispatchedRepo(didx)))
    /\ didx' = didx + 1
    /\ UNCHANGED <<inputVars, mainVars, dpc, inputClosed, procVars, timerVars, buf, stream>>

\* Whether the dispatcher has left its loop and stands at close(input).
LoopLeftEarly == TRUE
LoopLeft == didx > Len(repos)

\* close(input), after the loop.
CloseInput ==
    /\ Running
    /\ dpc = "loop"
    /\ LoopLeft
    /\ inputClosed' = TRUE
    /\ dpc' = "done"
    /\ UNCHANGED <<inputVars, mainVars, workers, didx, dequeued, procVars, timerVars,
                   buf, stream>>

----------------------------------------------------------------------------
(* worker, main.go:123-142 *)

\* The worker left "for cmd := range input": the queue is closed (and, being
\* unbuffered, empty).
WorkerExit(w) ==
    /\ Running
    /\ workers[w].pc = "recv"
    /\ inputClosed
    /\ workers' = [workers EXCEPT ![w].pc = "exit"]
    /\ UNCHANGED <<inputVars, mainVars, dispVars, procVars, timerVars, buf, stream>>

\* stdout.Printf("--> %s\n", cmd.String())
Header(w) ==
    /\ Running
    /\ workers[w].pc = "header"
    /\ stream' = FileWrite(stream, 1, TaskOf(workers[w].cmd), LoggerOutput(<<"h", "\n">>))
    /\ workers' = [workers EXCEPT ![w].pc = "start"]
    /\ UNCHANGED <<inputVars, mainVars, dispVars, procVars, timerVars, buf>>

----------------------------------------------------------------------------
(* runCommand, main.go:144-176 *)

\* return CommandResult{Error: err, Command: command} for the error of process.Start().
SpawnFailureResultOk(command) == [Success |-> TRUE, Error |-> "nil", Command |-> command]
SpawnFailureResult(command) == [Success |-> FALSE, Error |-> "spawn", Command |-> command]

\* process.Start() fails: runCommand returns the spawn error.
StartFail(w) ==
    /\ Running
    /\ workers[w].pc = "start"
    /\ workers' = [workers EXCEPT
           ![w].pc = "flushout",
           ![w].result = SpawnFailureResult(workers[w].cmd)]
    /\ UNCHANGED <<inputVars, mainVars, dispVars, procVars, timerVars, buf, stream>>

\* process.Start() succeeds; timedOut := false, the timer is created and its
\* goroutine started.
StartOk(w) ==
    LET t == TaskOf(workers[w].cmd) IN
    /\ Running
    /\ workers[w].pc = "start"
    /\ pstate' = [pstate EXCEPT ![t] = "running"]
    /\ tpc' = [tpc EXCEPT ![t] = "armed"]
    /\ timedOut' = [timedOut EXCEPT ![t] = FALSE]
    /\ workers' = [workers EXCEPT ![w].pc = "wait"]
    /\ UNCHANGED <<inputVars, mainVars, dispVars, pcode, nwritten, buf, stream>>

\* The error process.Wait() returns for a finished process: nil for exit code
\* 0, an *exec.ExitError for a non-zero exit code or a death by signal.
WaitError(state, code) ==
    IF state = "exited" /\ code = 0 THEN "nil" ELSE "ExitError"

\* The CommandResult runCommand returns after process.Wait() returned err, flag
\* being the value of timedOut it read (read only when err is not nil).
ResultAfterWaitFlagFirst(command, err, flag) ==
    IF flag \/ err # "nil"
    THEN [Success |-> FALSE,
          Error |-> IF flag THEN "timeout"
                    ELSE IF err = "ExitError" THEN "nonzero"
                    ELSE err,
          Command |-> command]
    ELSE [Success |-> TRUE, Error |-> "nil", Command |-> command]
ResultAfterWaitLenient(command, err, flag) ==
    IF err # "nil" /\ err # "ExitError"
    THEN [Success |-> FALSE, Error |-> err, Command |-> command]
    ELSE [Success |-> TRUE, Error |-> "nil", Command |-> command]
ResultAfterWait(command, err, flag) ==
    IF err # "nil"
    THEN [Success |-> FALSE,
          Error |-> IF flag THEN "timeout"
                    ELSE IF err = "ExitError" THEN "nonzero"
                    ELSE err,
          Command |-> command]
    ELSE [Success |-> TRUE, Error |-> "nil", Command |-> command]

\* process.Wait() returns: the process has exited or was killed.
WaitReturn(w) ==
    LET t == TaskOf(workers[w].cmd)
        err == WaitError(pstate[t], pcode[t])
    IN
    /\ Running
    /\ workers[w].pc = "wait"
    /\ pstate[t] \in {"exited", "killed"}
    /\ workers' = [workers EXCEPT
           ![w].err = err,
           ![w].pc = IF err = "nil" THEN "flushout" ELSE "check",
           ![w].result = IF err = "nil" THEN ResultAfterWait(workers[w].cmd, err, timedOut[t])
                         ELSE @]
    /\ UNCHANGED <<inputVars, mainVars, dispVars, procVars, timerVars, buf, stream>>

\* "if timedOut": the wait path reads the flag the timer goroutine writes, with
\* no synchronisation between the two; the read sees the write or not.
CheckTimedOut(w) ==
    LET t == TaskOf(workers[w].cmd) IN
    /\ Running
    /\ workers[w].pc = "check"
    /\ workers' = [workers EXCEPT
           ![w].pc = "flushout",
           ![w].result = ResultAfterWait(workers[w].cmd, workers[w].err, timedOut[t])]
    /\ UNCHANGED <<inputVars, mainVars, dispVars, procVars, timerVars, buf, stream>>

\* The timer goroutine: timer.C delivers and process.Process.Signal(os.Kill) is
\* called.  A running process dies of the signal; for a finished one Signal
\* returns an error, which is ignored.
TimerFire(t) ==
    /\ Running
    /\ tpc[t] = "armed"
    /\ tpc' = [tpc EXCEPT ![t] = "signalled"]
    /\ pstate' = [pstate EXCEPT ![t] = IF @ = "running" THEN "killed" ELSE @]
    /\ UNCHANGED <<inputVars, mainVars, dispVars, workers, pcode, nwritten, timedOut,
                   buf, stream>>

\* The timer goroutine: timedOut = true; break.
TimerSetFlag(t) ==
    /\ Running
    /\ tpc[t] = "signalled"
    /\ timedOut' = [timedOut EXCEPT ![t] = TRUE]
    /\ tpc' = [tpc EXCEPT ![t] = "done"]
    /\ UNCHANGED <<inputVars, mainVars, dispVars, workers, procVars, buf, stream>>

----------------------------------------------------------------------------
(* The external process (environment) *)

\* The process exits by itself, with exit code 0 or 1.
ProcExit(t) ==
    /\ Running
    /\ pstate[t] = "running"
    /\ \E code \in {0, 1} :
           /\ pstate' = [pstate EXCEPT ![t] = "exited"]
           /\ pcode' = [pcode EXCEPT ![t] = code]
    /\ UNCHANGED <<inputVars, mainVars, dispVars, workers, nwritten, timerVars, buf, stream>>

\* The process writes a chunk to its standard output or standard error.
ProcWrite(t) ==
    /\ Running
    /\ pstate[t] = "running"
    /\ nwritten[t] < MaxChunks
    /\ \E fd \in {1, 2} : ProcessWrite(t, fd, Chunk)
    /\ nwritten' = [nwritten EXCEPT ![t] = @ + 1]
    /\ UNCHANGED <<inputVars, mainVars, dispVars, workers, pstate, pcode, timerVars>>

----------------------------------------------------------------------------
(* worker, after runCommand returned *)

\* stdoutWriter.Flush()
FlushStdout(w) ==
    LET t == TaskOf(workers[w].cmd) IN
    /\ Running
    /\ workers[w].pc = "flushout"
    /\ stream' = FileWrite(stream, 1, t, LogWriterFlush(buf[t][1]))
    /\ buf' = [buf EXCEPT ![t][1] = <<>>]
    /\ workers' = [workers EXCEPT ![w].pc = "flusherr"]
    /\ UNCHANGED <<inputVars, mainVars, dispVars, procVars, timerVars>>

\* stderrWriter.Flush()
FlushStderr(w) ==
    LET t == TaskOf(workers[w].cmd) IN
    /\ Running
    /\ workers[w].pc = "flusherr"
    /\ stream' = FileWrite(stream, 2, t, LogWriterFlush(buf[t][2]))
    /\ buf' = [buf EXCEPT ![t][2] = <<>>]
    /\ workers' = [workers EXCEPT ![w].pc = "errline"]
    /\ UNCHANGED <<inputVars, mainVars, dispVars, procVars, timerVars>>

\* if !result.Success { stderr.Printf("error: %s\n", result.Error.Error()) }
\* The condition, then the step.
ErrorLineNeededAlways(result) == TRUE
ErrorLineNeeded(result) == ~result.Success

ErrorLine(w) ==
    LET t == TaskOf(workers[w].cmd) IN
    /\ Running
    /\ workers[w].pc = "errline"
    /\ stream' = IF ErrorLineNeeded(workers[w].result)
                 THEN FileWrite(stream, 2, t, LoggerOutput(<<"e", "\n">>))
                 ELSE stream
    /\ workers' = [workers EXCEPT ![w].pc = "send"]
    /\ UNCHANGED <<inputVars, mainVars, dispVars, procVars, timerVars, buf>>

----------------------------------------------------------------------------
(* The Go runtime: all goroutines asleep *)

\* main is blocked in "result := <-output": no worker stands at its send.
MainAsleep ==
    /\ mpc = "collect"
    /\ CollectGuard
    /\ \A w \in 1..Len(workers) : workers[w].pc # "send"

\* The dispatcher goroutine has ended, or is blocked in "input <- cmd": no
\* worker stands at its receive.
DispatcherAsleep ==
    \/ dpc = "done"
    \/ /\ dpc = "loop"
       /\ ~LoopLeft
       /\ \A w \in 1..Len(workers) : workers[w].pc # "recv"

\* Worker w has ended, or is blocked in "for cmd := range input" on the open
\* queue.  A worker inside process.Wait() is in a system call, not asleep.
WorkerAsleep(w) ==
    \/ workers[w].pc = "exit"
    \/ workers[w].pc = "recv" /\ ~inputClosed

\* No timer is pending and no timer goroutine can run.
TimersQuiet == \A t \in 1..Len(tpc) : tpc[t] \notin {"armed", "signalled"}

AllAsleep ==
    /\ MainAsleep
    /\ DispatcherAsleep
    /\ \A w \in 1..Len(workers) : WorkerAsleep(w)
    /\ TimersQuiet

\* What the runtime writes to standard error: "fatal error: all goroutines are
\* asleep - deadlock!" and the goroutine traces.
FatalError == <<"d", "\n">>

\* The Go runtime finds every goroutine blocked on a channel: it reports the
\* fatal error and ends the program with exit status 2.
RuntimeDeadlock ==
    /\ Running
    /\ AllAsleep
    /\ stream' = FileWrite(stream, 2, 0, FatalError)
    /\ exitCode' = 2
    /\ mpc' = "fatal"
    /\ UNCHANGED <<inputVars, workers, repos, ncollected, received, failedCms, summary,
                   dispVars, procVars, timerVars, buf>>

----------------------------------------------------------------------------
(* Specification *)

Next ==
    \/ StartWorker
    \/ Discover
    \/ StartDispatcher
    \/ Exit
    \/ CloseInput
    \/ \E w \in 1..Len(workers) : Collect(w)
    \/ \E w \in 1..Len(workers) : Dequeue(w)
    \/ \E w \in 1..Len(workers) : WorkerExit(w)
    \/ \E w \in 1..Len(workers) : Header(w)
    \/ \E w \in 1..Len(workers) : StartFail(w)
    \/ \E w \in 1..Len(workers) : StartOk(w)
    \/ \E w \in 1..Len(workers) : WaitReturn(w)
    \/ \E w \in 1..Len(workers) : CheckTimedOut(w)
    \/ \E w \in 1..Len(workers) : FlushStdout(w)
    \/ \E w \in 1..Len(workers) : FlushStderr(w)
    \/ \E w \in 1..Len(workers) : ErrorLine(w)
    \/ \E t \in 1..Len(repos) : TimerFire(t)
    \/ \E t \in 1..Len(repos) : TimerSetFlag(t)
    \/ \E t \in 1..Len(repos) : ProcExit(t)
    \/ RuntimeDeadlock

\* The program with processes that print nothing.
Spec == Init /\ [][Next]_vars

\* The program with processes that write to their standard output and error.
NextOutput ==
    \/ Next
    \/ \E t \in 1..Len(repos) : ProcWrite(t)

SpecOutput == Init /\ [][NextOutput]_vars

\* Scheduling: every goroutine that can take a step eventually takes one, an
\* armed timer eventually fires, and the runtime acts when all are asleep.  A
\* process need not exit by itself.
MainStep == StartWorker \/ Discover \/ StartDispatcher \/ Exit

WorkerStep(w) ==
    /\ w \in 1..Len(workers)
    /\ \/ Collect(w)
       \/ Dequeue(w)
       \/ WorkerExit(w)
       \/ Header(w)
       \/ StartFail(w)
       \/ StartOk(w)
       \/ WaitReturn(w)
       \/ CheckTimedOut(w)
       \/ FlushStdout(w)
       \/ FlushStderr(w)
       \/ ErrorLine(w)

TimerStep(t) ==
    /\ t \in 1..Len(repos)
    /\ (TimerFire(t) \/ TimerSetFlag(t))

Fairness ==
    /\ WF_vars(MainStep)
    /\ WF_vars(CloseInput)
    /\ WF_vars(RuntimeDeadlock)
    /\ \A w \in 1..(MaxWorkers + 1) : WF_vars(WorkerStep(w))
    /\ \A t \in 1..MaxRepos : WF_vars(TimerStep(t))

SpecLive == Init /\ [][Next]_vars /\ Fairness

\* Discovery alone, over listings with files, directories without a marker,
\* unsearchable directories, names ending in ".git", and exclude lists.
DiscoverNames == << <<"A", "b">>, <<"a", ".", "g", "i", "t">>, <<"f", "o">> >>

EntryChoices(name) ==
    {<<>>} \cup {<<Dir(name, d, m, s)>> : d \in BOOLEAN, m \in BOOLEAN, s \in BOOLEAN}

DiscoverListings ==
    {a \o b \o c : a \in EntryChoices(DiscoverNames[1]),
                   b \in EntryChoices(DiscoverNames[2]),
                   c \in EntryChoices(DiscoverNames[3])}

Excludes == { <<>>, <<"a", "b">>, <<"x", ",", "F", "O">>, <<"f">> }

InitDiscover == InitWith(DiscoverListings, Excludes)

NextDiscover == StartWorker \/ Discover

SpecDiscover == InitDiscover /\ [][NextDiscover]_vars

\* Runs in which no process can be started (git is not on the PATH), with one
\* worker and 0, 1, 2 or 256 repositories r000, r001, ...
ExitName(i) ==
    <<"r", DigitChars[(i \div 100) + 1], DigitChars[((i \div 10) % 10) + 1],
      DigitChars[(i % 10) + 1]>>

ExitListings ==
    { [i \in 1..k |-> Dir(ExitName(i), TRUE, TRUE, TRUE)] : k \in {0, 1, 2, 256} }

InitExit == InitState({1}, ExitListings, {<<>>})

NextExit ==
    \/ StartWorker
    \/ Discover
    \/ StartDispatcher
    \/ Exit
    \/ CloseInput
    \/ \E w \in 1..Len(workers) : Collect(w)
    \/ \E w \in 1..Len(workers) : Dequeue(w)
    \/ \E w \in 1..Len(workers) : WorkerExit(w)
    \/ \E w \in 1..Len(workers) : Header(w)
    \/ \E w \in 1..Len(workers) : StartFail(w)
    \/ \E w \in 1..Len(workers) : FlushStdout(w)
    \/ \E w \in 1..Len(workers) : FlushStderr(w)
    \/ \E w \in 1..Len(workers) : ErrorLine(w)

SpecExit == InitExit /\ [][NextExit]_vars

\* The program with any value of the -n flag, zero and negative included.
InitAnyCount == InitState((-1)..MaxWorkers, RunListings, {<<>>})

SpecAnyCount == InitAnyCount /\ [][Next]_vars

----------------------------------------------------------------------------
(* Properties *)

Range(s) == {s[i] : i \in 1..Len(s)}

\* The results runCommand has returned so far: those a worker holds between
\* runCommand's return and the delivery, and those main has received.
Produced ==
    {workers[w].result :
        w \in {v \in 1..Len(workers) :
                 workers[v].pc \in {"flushout", "flusherr", "errline", "send"}}}
    \cup Range(received)

Commands == {MkCommand(repos[t]) : t \in 1..Len(repos)}

\* C1: the collector never holds two results of one command nor a result of a
\* command that was not dispatched, and when the run has ended it has received
\* exactly one result for each of the len(repos) commands.
C1_OneResultPerCommand ==
    /\ Len(received) <= Len(repos)
    /\ \A i, j \in 1..Len(received) :
           i # j => received[i].Command # received[j].Command
    /\ \A i \in 1..Len(received) :
           /\ received[i].Command \in Commands
           /\ TaskOf(received[i].Command) < didx
    /\ mpc = "exited" =>
           /\ Len(received) = Len(repos)
           /\ {received[i].Command : i \in 1..Len(received)} = Commands

\* Two workers, two commands, and the results arrived in the other order.
C1_Witness ==
    /\ mpc = "exited"
    /\ maxconcurrency = 2
    /\ Len(repos) = 2
    /\ Len(received) = 2
    /\ received[1].Command = MkCommand(repos[2])
    /\ received[2].Command = MkCommand(repos[1])

\* The workers inside runCommand (between its call and its return).
InRunCommand == {w \in 1..Len(workers) : workers[w].pc \in {"start", "wait", "check"}}

\* C2: at most maxconcurrency commands are inside runCommand, and at most
\* maxconcurrency external processes are running, at any time.
C2_BoundedConcurrency ==
    /\ Cardinality(InRunCommand) <= maxconcurrency
    /\ Cardinality({t \in 1..Len(repos) : pstate[t] = "running"}) <= maxconcurrency

\* One worker, two commands: the first is running, the second still waits.
C2_Witness ==
    /\ maxconcurrency = 1
    /\ Len(repos) = 2
    /\ didx = 2
    /\ pstate[1] = "running"
    /\ pstate[2] = "none"

\* C3: a task whose process was still running when its timer fired (it was
\* killed by the timer's signal) has a failed result with the timeout error.
C3_TimeoutResult ==
    \A r \in Produced :
        pstate[TaskOf(r.Command)] = "killed" =>
            /\ ~r.Success
            /\ r.Error = "timeout"

\* C4: a task whose process exited by itself is successful exactly when the
\* exit code is 0, and a non-zero exit code gives a failed result with an error.
C4_ExitCodeDecidesSuccess ==
    \A r \in Produced :
        LET t == TaskOf(r.Command) IN
        pstate[t] = "exited" =>
            /\ r.Success <=> pcode[t] = 0
            /\ pcode[t] # 0 => (~r.Success /\ r.Error # "nil")

\* One process exited with 0 and one with 1, and main has both results.
C4_Witness ==
    /\ Len(received) = 2
    /\ \E i, j \in 1..2 :
           /\ pstate[TaskOf(received[i].Command)] = "exited"
           /\ pcode[TaskOf(received[i].Command)] = 0
           /\ received[i].Success
           /\ pstate[TaskOf(received[j].Command)] = "exited"
           /\ pcode[TaskOf(received[j].Command)] = 1
           /\ ~received[j].Success

\* A stream of whole lines: it ends at the end of a line, a line is written by
\* one writer to one file, and a task's line begins with the task's label.
WholeLines(s) ==
    /\ Len(s) > 0 => s[Len(s)].c = "\n"
    /\ \A i \in 1..Len(s) :
           IF i = 1 \/ s[i - 1].c = "\n"
           THEN s[i].o # 0 => s[i].c = "L"
           ELSE /\ s[i].o = s[i - 1].o
                /\ s[i].fd = s[i - 1].fd
                /\ s[i].c # "L"

\* C5: what has been written to the shared streams is at all times a sequence
\* of whole labelled lines, no line holding bytes of two tasks.
C5_WholeLines == WholeLines(stream)

\* Task 1's process output is on the stream while task 2's process, started
\* before that flush, holds a partial line in its buffer.
C5_Witness ==
    /\ Len(repos) = 2
    /\ \E i \in 1..Len(stream) : stream[i].o = 1 /\ stream[i].c = "x"
    /\ pstate[2] = "running"
    /\ buf[2][1] # <<>>
    /\ \E w \in 1..Len(workers) :
           /\ workers[w].pc = "flusherr"
           /\ TaskOf(workers[w].cmd) = 1

NumFailed == Cardinality({i \in 1..Len(received) : ~received[i].Success})

\* C6: the status main exits with is the number of failed results it received,
\* and it is 0 exactly when all of them were successful.
C6_ExitStatus ==
    mpc = "exited" =>
        /\ exitCode = NumFailed
        /\ exitCode = 0 <=> \A i \in 1..Len(received) : received[i].Success

\* A run of two commands of which one failed.
C6_Witness ==
    /\ mpc = "exited"
    /\ Len(received) = 2
    /\ exitCode = 1

\* C7: with one worker or more, the run ends.
C7_Terminates == (maxconcurrency >= 1) ~> (mpc = "exited")

\* A run that ended after a spawn failure and a timeout.
C7_Witness ==
    /\ mpc = "exited"
    /\ maxconcurrency >= 1
    /\ \E i, j \in 1..Len(received) :
           /\ received[i].Error = "spawn"
           /\ received[j].Error = "timeout"

\* C8: main has left the collect loop only with a result for every command;
\* then every command was dequeued and run (its process started, or the spawn
\* failed); and a process is only ever killed by its own task's timer.
C8_FailureIsolation ==
    /\ mpc = "exited" =>
           /\ Len(received) = Len(repos)
           /\ didx = Len(repos) + 1
           /\ \A i \in 1..Len(received) :
                  \/ pstate[TaskOf(received[i].Command)] \in {"exited", "killed"}
                  \/ received[i].Error = "spawn"
    /\ \A t \in 1..Len(repos) :
           pstate[t] = "killed" => tpc[t] \in {"signalled", "done"}

\* The first result was a failure, and the other command ran to a successful
\* end after it, untouched by a timer.
C8_Witness ==
    /\ mpc = "exited"
    /\ Len(received) = 2
    /\ ~received[1].Success
    /\ received[2].Success
    /\ tpc[TaskOf(received[2].Command)] = "armed"

LowerString(s) == [i \in 1..Len(s) |-> Lower(s[i])]

ExcludeEntries == Range(Split(excludeDirectories, ","))

MatchesExclude(name) ==
    \E e \in ExcludeEntries : LowerString(e) = LowerString(name)

EndsInDotGit(name) ==
    /\ Len(name) >= 4
    /\ \A i \in 1..4 : name[Len(name) - 4 + i] = DotGit[i]

\* C9 as stated: the task set is the directories with a marker that no exclude
\* entry matches, case ignored.
C9_TaskSetAsStated ==
    mpc # "spawn" =>
        Range(repos) = {d.name : d \in {e \in Range(dirs) :
                            e.isDir /\ e.hasMarker /\ ~MatchesExclude(e.name)}}

\* C9 amended: the task set is the directories whose name does not end in
\* ".git", whose marker lookup does not answer "does not exist" (the marker is
\* there, or the directory cannot be searched), and that no exclude entry
\* matches, case ignored.
C9_TaskSet ==
    mpc # "spawn" =>
        Range(repos) = {d.name : d \in {e \in Range(dirs) :
                            /\ e.isDir
                            /\ ~EndsInDotGit(e.name)
                            /\ (e.hasMarker \/ ~e.searchable)
                            /\ ~MatchesExclude(e.name)}}

\* "Ab" is excluded by the entry "ab", "a.git" has no marker, "fo" is a task.
C9_Witness ==
    /\ mpc # "spawn"
    /\ excludeDirectories = <<"a", "b">>
    /\ Len(dirs) = 3
    /\ dirs[1].isDir /\ dirs[1].hasMarker /\ dirs[1].searchable
    /\ dirs[2].isDir /\ ~dirs[2].hasMarker /\ dirs[2].searchable
    /\ repos = << <<"f", "o">> >>

\* C10: a task whose process exited by itself with a non-zero code (before the
\* timer fired) has the non-zero-exit error, not the timeout error.
C10_FirstEventDecides ==
    \A r \in Produced :
        LET t == TaskOf(r.Command) IN
        (pstate[t] = "exited" /\ pcode[t] # 0) => r.Error = "nonzero"

\* C11: a task whose process exited by itself with code 0 has a successful
\* result, with no error and never among main's failed results, whatever the
\* timer goroutine has done since (fired, signalled, set the flag).
C11_SuccessStays ==
    \A r \in Produced :
        LET t == TaskOf(r.Command) IN
        (pstate[t] = "exited" /\ pcode[t] = 0) =>
            /\ r.Success
            /\ r.Error = "nil"
            /\ \A i \in 1..Len(failedCms) : failedCms[i].Command # r.Command

\* Main holds the successful result of a task whose timer fired late and set
\* the flag.
C11_Witness ==
    \E i \in 1..Len(received) :
        LET t == TaskOf(received[i].Command) IN
        /\ received[i].Success
        /\ pstate[t] = "exited"
        /\ pcode[t] = 0
        /\ tpc[t] = "done"
        /\ timedOut[t]

\* C12: once a process has exited by itself and runCommand has produced the
\* task's result, the task's timer is neither pending nor has it signalled or
\* set the flag.
C12_TimerDisarmed ==
    \A r \in Produced :
        LET t == TaskOf(r.Command) IN
        pstate[t] = "exited" =>
            /\ tpc[t] \notin {"armed", "signalled", "done"}
            /\ ~timedOut[t]

\* C13 as amended: the queue is closed only by the dispatcher, after its loop
\* has sent every command, and at most once; nothing is dequeued after the close.
C13_CloseAfterAll ==
    /\ inputClosed <=> dpc = "done"
    /\ inputClosed =>
           /\ didx = Len(repos) + 1
           /\ Len(dequeued) = Len(repos)

\* C13 as stated: in addition the close has happened when the run has ended.
C13_ClosedAtExit ==
    /\ C13_CloseAfterAll
    /\ mpc = "exited" => inputClosed

\* Both commands were dequeued, then the queue was closed, and a worker has
\* seen the close.
C13_Witness ==
    /\ Len(repos) = 2
    /\ inputClosed
    /\ Len(dequeued) = 2
    /\ \E w \in 1..Len(workers) : workers[w].pc = "exit"

\* C14: once the dispatcher goroutine exists, and so whenever a command has
\* been enqueued, all maxconcurrency workers have been started.
C14_WorkersBeforeDispatch ==
    (dpc # "none" \/ didx > 1 \/ dequeued # <<>>) => Len(workers) = maxconcurrency

\* The first command was handed over with both workers started.
C14_Witness ==
    /\ maxconcurrency = 2
    /\ Len(workers) = 2
    /\ Len(dequeued) = 1

\* The positions in the shared streams of task t's bytes c.
StreamPositions(t, c) == {i \in 1..Len(stream) : stream[i].o = t /\ stream[i].c = c}

\* The results the workers hold ready for delivery, and those delivered.
Deliverable ==
    {workers[w].result : w \in {v \in 1..Len(workers) : workers[v].pc = "send"}}
    \cup Range(received)

\* C15: a result is offered to the collector only when its task's process has
\* finished, both of the task's buffers are flushed (all the process wrote is on
\* the streams), and the task's "error:" line is on stderr once if the result
\* is failed and not at all if it is successful, after the task's output;
\* before that step of the worker no "error:" line of the task exists.
C15_WorkerStepOrder ==
    /\ \A r \in Deliverable :
           LET t == TaskOf(r.Command) IN
           /\ pstate[t] # "running"
           /\ buf[t][1] = <<>> /\ buf[t][2] = <<>>
           /\ Cardinality(StreamPositions(t, "x")) = 2 * nwritten[t]
           /\ Cardinality(StreamPositions(t, "e")) = IF r.Success THEN 0 ELSE 1
           /\ \A i \in StreamPositions(t, "e") :
                  /\ stream[i].fd = 2
                  /\ \A j \in StreamPositions(t, "x") : j < i
    /\ \A w \in 1..Len(workers) :
           workers[w].pc \in {"header", "start", "wait", "check", "flushout",
                              "flusherr", "errline"}
               => StreamPositions(TaskOf(workers[w].cmd), "e") = {}

\* The collector holds the failed result of a task whose process wrote output:
\* the output and then the error line are on the streams.
C15_Witness ==
    \E i \in 1..Len(received) :
        LET t == TaskOf(received[i].Command) IN
        /\ ~received[i].Success
        /\ nwritten[t] = 1
        /\ StreamPositions(t, "x") # {}
        /\ StreamPositions(t, "e") # {}

\* C17: a task whose process could not be started has a failed result carrying
\* the spawn error; it never had a process, a timer or a timed-out flag, so
\* nothing is waited for or signalled; no result without a process is anything
\* but a spawn failure, and the collector holds at most one result for the task.
C17_SpawnFailure ==
    \A r \in Produced :
        LET t == TaskOf(r.Command) IN
        (r.Error = "spawn" \/ pstate[t] = "none") =>
            /\ ~r.Success
            /\ r.Error = "spawn"
            /\ pstate[t] = "none"
            /\ tpc[t] = "none"
            /\ ~timedOut[t]
            /\ Cardinality({i \in 1..Len(received) : received[i].Command = r.Command}) <= 1

\* The only worker delivered the spawn failure of the first command and has
\* taken the second.
C17_Witness ==
    /\ Len(workers) = 1
    /\ Len(received) = 1
    /\ received[1] = SpawnFailureResult(MkCommand(repos[1]))
    /\ failedCms = <<received[1]>>
    /\ workers[1].pc = "header"
    /\ workers[1].cmd = MkCommand(repos[2])

\* C20: the k-th command dequeued, by whichever worker, is the command of the
\* k-th work item.
C20_DequeueOrder ==
    /\ Len(dequeued) = didx - 1
    /\ Len(dequeued) <= Len(repos)
    /\ \A k \in 1..Len(dequeued) : dequeued[k] = MkCommand(repos[k])

\* Both commands were dequeued in list order, the second worker took the
\* first command, and the result of the second command reached main first.
C20_Witness ==
    /\ Len(workers) = 2
    /\ Len(dequeued) = 2
    /\ workers[2].cmd = MkCommand(repos[1])
    /\ workers[1].cmd = MkCommand(repos[2])
    /\ Len(received) >= 1
    /\ received[1].Command = MkCommand(repos[2])

\* The failed results in the order main received them.
IsFailed(r) == ~r.Success
FailedReceived == SelectSeq(received, IsFailed)

\* The summary entry that gives a command's identity: the command, its
\* arguments and its working directory.
IdentityEntry(c) ==
    <<"command failed: ", "'", c.Command, " ">> \o Join(c.Args, " ")
    \o <<"'", " in ", "'">> \o c.WorkingDir \o <<"'", "\n">>

\* C16 as amended: at the exit of a run with failures the summary is the line
\* with the number of failed tasks, then one entry per failed task, in the
\* order of reception, each giving the task's identity and nothing else; a
\* successful task has no entry, and a run without failures has no summary.
C16_Summary ==
    mpc = "exited" =>
        IF FailedReceived = <<>> THEN summary = <<>>
        ELSE /\ Len(summary) = Len(FailedReceived) + 1
             /\ summary[1] = <<"error: ">> \o Digits(NumFailed)
                             \o <<" command(s) failed", "\n">>
             /\ \A k \in 1..Len(FailedReceived) :
                    summary[k + 1] = IdentityEntry(FailedReceived[k].Command)

\* C16 as stated: each entry also gives the task's error.
C16_SummaryWithError ==
    /\ C16_Summary
    /\ mpc = "exited" =>
           \A k \in 1..Len(FailedReceived) :
               /\ k + 1 <= Len(summary)
               /\ FailedReceived[k].Error \in Range(summary[k + 1])

\* A run of two commands ended with one failure: the summary has the count
\* line and the entry of the failed command only.
C16_Witness ==
    /\ mpc = "exited"
    /\ Len(received) = 2
    /\ NumFailed = 1
    /\ Len(summary) = 2

\* C18: the exit status the host sees is non-zero exactly when a task failed.
C18_HostStatus ==
    mpc = "exited" => (HostStatus(exitCode) # 0 <=> NumFailed >= 1)

\* What holds with a worker count of 0 or less: no worker exists, nothing is
\* dequeued, no process is started, no result is received and main's os.Exit
\* is not reached while there is a work item.
NothingRuns ==
    /\ workers = <<>>
    /\ dequeued = <<>>
    /\ received = <<>>
    /\ \A t \in 1..Len(repos) : pstate[t] = "none"
    /\ mpc = "exited" => Len(repos) = 0

\* With an empty work-item list the run exits with status 0 without having run
\* a command, whatever the worker count.
EmptyListExit ==
    (mpc = "exited" /\ Len(repos) = 0) =>
        /\ exitCode = 0
        /\ dequeued = <<>>
        /\ received = <<>>

\* C19 as amended: with a worker count of 0 or less nothing runs; with a work
\* item main's exit is never reached, but the run ends: once main waits for the
\* first result and the dispatcher for a receiver, the Go runtime's fatal error
\* is the only step, and it ends the program with status 2.  The fatal error
\* happens in no other run.  With an empty list the run exits with status 0.
C19_NoWorkers ==
    /\ maxconcurrency <= 0 =>
           /\ NothingRuns
           /\ (mpc = "collect" /\ dpc = "loop" /\ Len(repos) >= 1) =>
                  /\ ENABLED RuntimeDeadlock
                  /\ ~ENABLED (Exit \/ CloseInput)
    /\ mpc = "fatal" =>
           /\ maxconcurrency <= 0
           /\ Len(repos) >= 1
           /\ exitCode = 2
           /\ stream[Len(stream) - 1] = [o |-> 0, fd |-> 2, c |-> "d"]
    /\ EmptyListExit

\* C19 as stated: with a worker count of 0 or less and a work item the run
\* never ends.
C19_NeverEnds ==
    /\ maxconcurrency <= 0 => NothingRuns
    /\ (maxconcurrency <= 0 /\ Len(repos) >= 1) => Running
    /\ EmptyListExit

\* A negative worker count and two work items: main waited for a result, the
\* dispatcher for a receiver, and the runtime ended the program.
C19_Witness ==
    /\ maxconcurrency = -1
    /\ Len(repos) = 2
    /\ mpc = "fatal"
    /\ dpc = "loop"
    /\ exitCode = 2

====
